---- MODULE Spec2Model ----
(***************************************************************************)
(* FMI 2.0 callback table of FMIImport.jl (callbackFunctions/main.cpp):    *)
(* logger, allocateMemory, freeMemory, stepFinished and the severity       *)
(* mapper fmi2StatusString, driven by a single-threaded host.              *)
(*                                                                         *)
(* The state is what the host can observe: the standard output stream,    *)
(* the system allocator's outstanding blocks, and whether the process is   *)
(* still alive.  Ghost variables record the calls issued and the last      *)
(* call's arguments and intermediate values.                               *)
(***************************************************************************)
EXTENDS Integers, Sequences, FiniteSets, TLC

VARIABLES stdout, heap, crashed, issued, owned, call, mapped

vars == <<stdout, heap, crashed, issued, owned, call, mapped>>

(***************************************************************************)
(* Bounds of the model.                                                    *)
(***************************************************************************)
\* width of size_t in bits (scaled down; arithmetic is done modulo 2^SIZE_BITS)
SIZE_BITS == 6
\* number of addresses the system allocator can hand out
MaxBlocks == 2
\* number of logger calls a behaviour issues
MaxLog == 2
\* number of severity-mapper calls a behaviour issues
MaxMap == 3

SIZE_MOD == 2 ^ SIZE_BITS
SIZE_MAX == SIZE_MOD - 1

NULL == 0

Addresses == 1 .. MaxBlocks

(***************************************************************************)
(* main.h: fmi2Status                                                      *)
(***************************************************************************)
fmi2OK == 0
fmi2Warning == 1
fmi2Discard == 2
fmi2Error == 3
fmi2Fatal == 4
fmi2Pending == 5

fmi2Status == {fmi2OK, fmi2Warning, fmi2Discard, fmi2Error, fmi2Fatal, fmi2Pending}

\* status ordinals a caller can pass (an enum parameter is an int in the ABI)
StatusInputs == (fmi2OK - 1) .. (fmi2Pending + 1)

(***************************************************************************)
(* main.cpp: colour macros and fmi2StatusString.  A C string is modelled   *)
(* as a sequence of pieces; an escape sequence is one piece.               *)
(***************************************************************************)
ESC_RED == "<ESC>[31m"
ESC_GREEN == "<ESC>[32m"
ESC_YELLOW == "<ESC>[33m"
ESC_BLUE == "<ESC>[34m"
ESC_RESET == "<ESC>[0m"

RED(message) == <<ESC_RED, message, ESC_RESET>>
GREEN(message) == <<ESC_GREEN, message, ESC_RESET>>
YELLOW(message) == <<ESC_YELLOW, message, ESC_RESET>>
BLUE(message) == <<ESC_BLUE, message, ESC_RESET>>

\* a copy-and-paste slip in the switch: fmi2Discard falls into the Warning label
fmi2StatusString_dup(status) ==
    CASE status = fmi2OK      -> GREEN("OK")
      [] status = fmi2Warning -> YELLOW("Warning")
      [] status = fmi2Discard -> YELLOW("Warning")
      [] status = fmi2Error   -> RED("Error")
      [] status = fmi2Fatal   -> RED("Fatal")
      [] status = fmi2Pending -> YELLOW("Pending")
      [] OTHER                -> RED("Unknwon")

fmi2StatusString(status) ==
    CASE status = fmi2OK      -> GREEN("OK")
      [] status = fmi2Warning -> YELLOW("Warning")
      [] status = fmi2Discard -> YELLOW("Discard")
      [] status = fmi2Error   -> RED("Error")
      [] status = fmi2Fatal   -> RED("Fatal")
      [] status = fmi2Pending -> YELLOW("Pending")
      [] OTHER                -> RED("Unknwon")

(***************************************************************************)
(* libc as main.cpp uses it.                                               *)
(***************************************************************************)
\* a wide string with a character the locale cannot encode: %ls fails on it
BadWide == "<unencodable>"

\* printf-style rendering of a template (a sequence of literal pieces and
\* conversions) with its arguments: the text produced, and whether a
\* conversion failed (the text is then what was produced before it)
RECURSIVE Render(_, _, _)
Render(fmt, args, acc) ==
    IF fmt = <<>> THEN [fail |-> FALSE, text |-> acc]
    ELSE LET t == Head(fmt) IN
         CASE t = "%s"  -> Render(Tail(fmt), Tail(args), acc \o Head(args))
           [] t = "%ls" -> IF Head(args) = BadWide
                           THEN [fail |-> TRUE, text |-> acc]
                           ELSE Render(Tail(fmt), Tail(args), acc \o Head(args))
           [] t = "%%"  -> Render(Tail(fmt), args, acc \o "%")
           [] OTHER     -> Render(Tail(fmt), args, acc \o t)

\* vsnprintf(NULL, 0, message, args): the length the output needs, without
\* the terminator, or a negative int when a conversion fails
vsnprintf(message, args) ==
    LET r == Render(message, args, "")
    IN  IF r.fail THEN -1 ELSE Len(r.text)

\* vsprintf(buffer, message, args) with a usable buffer: the characters it
\* stores and how many bytes it writes (the terminator included on success)
vsprintf(message, args) ==
    LET r == Render(message, args, "")
    IN  [fail |-> r.fail, text |-> r.text,
         written |-> IF r.fail THEN Len(r.text) ELSE Len(r.text) + 1]

\* an int or a size_t expression stored into a size_t
ToSizeT(x) == x % SIZE_MOD

FreeAddresses(h) == Addresses \ DOMAIN h

\* calloc(nobj, size): NULL when the product does not fit a size_t or the
\* allocator is exhausted (which may happen at any call), else a new block
calloc(h, nobj, size) ==
    {NULL} \cup (IF nobj * size <= SIZE_MAX THEN FreeAddresses(h) ELSE {})

ZeroBytes(n) == [i \in 1 .. n |-> 0]

\* the heap once calloc has returned p for nbytes bytes
Allocated(h, p, nbytes) ==
    IF p = NULL THEN h
    ELSE h @@ (p :> [size |-> nbytes, bytes |-> ZeroBytes(nbytes)])

\* free(p): a no-op on NULL
free(h, p) ==
    IF p = NULL THEN h ELSE [a \in DOMAIN h \ {p} |-> h[a]]

Init ==
    /\ stdout = <<>>
    /\ heap = <<>>
    /\ crashed = FALSE
    /\ issued = <<>>
    /\ owned = {}
    /\ call = [fn |-> "none"]
    /\ mapped = <<>>

(***************************************************************************)
(* main.cpp: logger.  vsnprintf and vsprintf walk the same va_list; the    *)
(* file builds against windows.h, where a va_list is a pointer passed by   *)
(* value, so the second walk reads the arguments the first one read.       *)
(* The two places where the code leaves defined behaviour (vsprintf into   *)
(* a null buffer, vsprintf past the end of the buffer) are a choice        *)
(* between the process dying there and the call going on with a buffer     *)
(* text that is not the formatted message.                                 *)
(***************************************************************************)
\* text that is not the formatted message: what printf's %s shows for a null
\* pointer, and the bytes (any, or none) that follow an unterminated buffer
NullText == "(null)"
Garbage == "<garbage>"

\* printf("[%s][%s][%s]: %s\n", fmi2StatusString(status), category,
\*        instanceName, msgBuffer): the pieces written to the stream
printfLine(label, category, instanceName, text) ==
    <<"[">> \o label \o <<"][", category, "][", instanceName, "]: ", text, "\n">>

\* the allocator after calloc gave logger its buffer and, unless logger forgets
\* it, free took it back
loggerHeap_leak(h, msgBuffer, nbytes) == Allocated(h, msgBuffer, nbytes)

loggerHeap(h, msgBuffer, nbytes) == free(Allocated(h, msgBuffer, nbytes), msgBuffer)

\* the process dies inside vsprintf: nothing is printed, nothing is released
loggerCrashes(c, msgBuffer, nbytes) ==
    /\ crashed' = TRUE
    /\ stdout' = stdout
    /\ heap' = Allocated(heap, msgBuffer, nbytes)
    /\ call' = [c EXCEPT !.returned = FALSE]

\* vsprintf came back, printf prints what the buffer holds, free, return
loggerReturns(c, instanceName, status, category, msgBuffer, nbytes, text) ==
    /\ crashed' = FALSE
    /\ stdout' = stdout \o printfLine(fmi2StatusString(status), category,
                                      instanceName, text)
    /\ heap' = loggerHeap(heap, msgBuffer, nbytes)
    /\ call' = [c EXCEPT !.returned = TRUE, !.label = fmi2StatusString(status),
                         !.text = text]

logger(componentEnvironment, instanceName, status, category, message, args) ==
    /\ ~crashed
    /\ Len(issued) < MaxLog
    /\ issued' = Append(issued, [instanceName |-> instanceName, status |-> status,
                                 category |-> category, message |-> message,
                                 args |-> args])
    /\ UNCHANGED <<owned, mapped>>
    /\ LET size == ToSizeT(vsnprintf(message, args))
           nobj == ToSizeT(size + 1)
       IN  \E msgBuffer \in calloc(heap, nobj, 1) :
             LET r == vsprintf(message, args)
                 c == [fn |-> "logger", status |-> status, size |-> size,
                       msgBuffer |-> msgBuffer,
                       capacity |-> IF msgBuffer = NULL THEN 0 ELSE nobj,
                       written |-> r.written, fail |-> r.fail,
                       returned |-> FALSE, label |-> <<>>, text |-> ""]
             IN  IF msgBuffer = NULL
                 THEN \* vsprintf(NULL, ...): undefined behaviour
                      \/ loggerCrashes(c, msgBuffer, nobj)
                      \/ loggerReturns(c, instanceName, status, category,
                                       msgBuffer, nobj, NullText)
                 ELSE IF r.written > nobj
                 THEN \* vsprintf writes past the end of the block
                      \/ loggerCrashes(c, msgBuffer, nobj)
                      \/ loggerReturns(c, instanceName, status, category,
                                       msgBuffer, nobj, r.text \o Garbage)
                 ELSE loggerReturns(c, instanceName, status, category,
                                    msgBuffer, nobj, r.text)

(***************************************************************************)
(* main.cpp: allocateMemory, freeMemory, stepFinished                      *)
(***************************************************************************)
\* malloc(nobj * size) and memset instead of calloc: the product wraps
allocateMemory_wrap(nobj, size) ==
    /\ ~crashed
    /\ \E ptr \in {NULL} \cup FreeAddresses(heap) :
         /\ heap' = Allocated(heap, ptr, ToSizeT(nobj * size))
         /\ owned' = (owned \cup {ptr}) \ {NULL}
         /\ call' = [fn |-> "allocateMemory", nobj |-> nobj, size |-> size,
                     ptr |-> ptr]
    /\ UNCHANGED <<stdout, crashed, issued, mapped>>

allocateMemory(nobj, size) ==
    /\ ~crashed
    /\ \E ptr \in calloc(heap, nobj, size) :
         /\ heap' = Allocated(heap, ptr, nobj * size)
         /\ owned' = (owned \cup {ptr}) \ {NULL}
         /\ call' = [fn |-> "allocateMemory", nobj |-> nobj, size |-> size,
                     ptr |-> ptr]
    /\ UNCHANGED <<stdout, crashed, issued, mapped>>

\* the body commented out: the block is never handed back
freeMemory_noop(obj) ==
    /\ ~crashed
    /\ heap' = heap
    /\ owned' = owned \ {obj}
    /\ call' = [fn |-> "freeMemory", obj |-> obj]
    /\ UNCHANGED <<stdout, crashed, issued, mapped>>

freeMemory(obj) ==
    /\ ~crashed
    /\ heap' = free(heap, obj)
    /\ owned' = owned \ {obj}
    /\ call' = [fn |-> "freeMemory", obj |-> obj]
    /\ UNCHANGED <<stdout, crashed, issued, mapped>>

\* the commented-out printf of the body switched on
stepFinished_print(componentEnvironment, status) ==
    /\ ~crashed
    /\ stdout' = stdout \o <<"[OK]: stepFinished()", "\n">>
    /\ call' = [fn |-> "stepFinished", handle |-> componentEnvironment,
                status |-> status]
    /\ UNCHANGED <<heap, crashed, issued, owned, mapped>>

stepFinished(componentEnvironment, status) ==
    /\ ~crashed
    /\ call' = [fn |-> "stepFinished", handle |-> componentEnvironment,
                status |-> status]
    /\ UNCHANGED <<stdout, heap, crashed, issued, owned, mapped>>

(***************************************************************************)
(* The host: a single thread that calls the table's entries in any order.  *)
(***************************************************************************)
\* an opaque component environment, or none
Handles == {NULL, 1}

\* logger calls: the specification's example, a call of the driver (test.c),
\* an empty message with a status outside the enumeration, and a message with
\* a literal percent sign whose last conversion fails
LoggerCalls ==
    { [instanceName |-> "inst", status |-> fmi2OK, category |-> "cat",
       message |-> <<"hello ", "%s">>, args |-> <<"world">>],
      [instanceName |-> "Test instance", status |-> fmi2Warning,
       category |-> "Test category", message |-> <<"A warning message">>,
       args |-> <<>>],
      [instanceName |-> "inst", status |-> fmi2Pending + 1, category |-> "cat",
       message |-> <<>>, args |-> <<>>],
      [instanceName |-> "inst", status |-> fmi2Fatal, category |-> "cat",
       message |-> <<"100", "%%", " bad: ", "%ls">>, args |-> <<BadWide>>] }

\* allocateMemory calls <<nobj, size>>: the specification's 4 x 8, no objects,
\* and products that do not fit a size_t (the second one wraps to 0)
AllocInputs ==
    { <<4, 8>>, <<0, 8>>, <<SIZE_MAX, 8>>, <<SIZE_MOD \div 2, 2>> }

\* stepFinished calls: with and without an environment, a status of the
\* enumeration and one outside it
StepStatusInputs == {fmi2OK, fmi2Pending + 1}

\* freeMemory's legal arguments: NULL, or a block allocateMemory returned that
\* has not been released (anything else is the caller's undefined behaviour)
FreeInputs == {NULL} \cup owned

Next ==
    \/ \E env \in Handles, c \in LoggerCalls :
         logger(env, c.instanceName, c.status, c.category, c.message, c.args)
    \/ \E a \in AllocInputs : allocateMemory(a[1], a[2])
    \/ \E obj \in FreeInputs : freeMemory(obj)
    \/ \E env \in Handles, status \in StepStatusInputs : stepFinished(env, status)

Spec == Init /\ [][Next]_vars

(***************************************************************************)
(* The severity mapper on its own: a caller that maps status ordinals,     *)
(* one after the other, and keeps what it was given.                       *)
(***************************************************************************)
labelFor(status) ==
    /\ Len(mapped) < MaxMap
    /\ mapped' = Append(mapped, [status |-> status,
                                 label |-> fmi2StatusString(status)])
    /\ UNCHANGED <<stdout, heap, crashed, issued, owned, call>>

NextMapper == \E status \in StatusInputs : labelFor(status)

SpecMapper == Init /\ [][NextMapper]_vars

(***************************************************************************)
(* What a reader of the output sees.                                       *)
(***************************************************************************)
EscapeCodes == {ESC_RED, ESC_GREEN, ESC_YELLOW, ESC_BLUE, ESC_RESET}

IsText(piece) == piece \notin EscapeCodes

\* a string of pieces with the colour annotation removed
StripColor(pieces) == SelectSeq(pieces, IsText)

RECURSIVE Flatten(_)
Flatten(pieces) ==
    IF pieces = <<>> THEN "" ELSE Head(pieces) \o Flatten(Tail(pieces))

\* the stream cut into its lines, each without its newline
RECURSIVE SplitLines(_, _, _)
SplitLines(stream, cur, acc) ==
    IF stream = <<>> THEN (IF cur = <<>> THEN acc ELSE Append(acc, cur))
    ELSE IF Head(stream) = "\n"
         THEN SplitLines(Tail(stream), <<>>, Append(acc, cur))
         ELSE SplitLines(Tail(stream), Append(cur, Head(stream)), acc)

Lines(stream) == SplitLines(stream, <<>>, <<>>)

\* the labels the specification names
LabelText(status) ==
    CASE status = fmi2OK      -> "OK"
      [] status = fmi2Warning -> "Warning"
      [] status = fmi2Discard -> "Discard"
      [] status = fmi2Error   -> "Error"
      [] status = fmi2Fatal   -> "Fatal"
      [] status = fmi2Pending -> "Pending"
      [] OTHER                -> "Unknown"

InRangeLabels == {LabelText(st) : st \in fmi2Status}

PlainLabel(label) == Flatten(StripColor(label))

\* whether printf-style substitution of a call's template is defined
Formats(c) == ~Render(c.message, c.args, "").fail

\* "[<status-label>][<category>][<instance-name>]: <formatted-message>"
ExpectedLine(c) ==
    "[" \o LabelText(c.status) \o "][" \o c.category \o "][" \o c.instanceName
        \o "]: " \o Render(c.message, c.args, "").text

LastIssued == issued[Len(issued)]

(***************************************************************************)
(* C1: every logger call with a status of the enumeration appends exactly  *)
(* one line to standard output, and that line, colour stripped, is         *)
(* "[<status-label>][<category>][<instance-name>]: <formatted-message>".   *)
(* Stated for the call just made: the stream holds one line per call       *)
(* issued and its last line is the expected one.                           *)
(***************************************************************************)
C1_OneFormattedLinePerCall ==
    (call.fn = "logger" /\ LastIssued.status \in fmi2Status /\ Formats(LastIssued))
        => /\ Len(Lines(stdout)) = Len(issued)
           /\ Flatten(StripColor(Lines(stdout)[Len(issued)])) = ExpectedLine(LastIssued)

(***************************************************************************)
(* C2: after N logger calls issued by the single thread, interleaved with  *)
(* the other entries, standard output holds exactly N lines and the i-th   *)
(* line is the i-th call's (its category and instance name).               *)
(***************************************************************************)
C2_LinesFollowCalls ==
    /\ Len(Lines(stdout)) = Len(issued)
    /\ \A i \in 1 .. Len(issued) :
         LET line == StripColor(Lines(stdout)[i])
         IN  /\ Len(line) = 8
             /\ line[4] = issued[i].category
             /\ line[6] = issued[i].instanceName

(***************************************************************************)
(* C3: for each of the six status values the severity mapper returns the   *)
(* label whose text, colour stripped, is OK, Warning, Discard, Error,      *)
(* Fatal, Pending respectively; the labels are non-empty, pairwise         *)
(* distinct and the same on every call.                                    *)
(***************************************************************************)
C3_InRangeLabels ==
    \A i \in 1 .. Len(mapped) :
        mapped[i].status \in fmi2Status =>
            /\ PlainLabel(mapped[i].label) = LabelText(mapped[i].status)
            /\ PlainLabel(mapped[i].label) # ""
            /\ \A j \in 1 .. Len(mapped) :
                 mapped[j].status \in fmi2Status =>
                     (mapped[i].label = mapped[j].label
                         <=> mapped[i].status = mapped[j].status)

C3_Witness ==
    /\ Len(mapped) >= 3
    /\ mapped[1].status = fmi2Discard
    /\ mapped[2].status = fmi2Warning
    /\ mapped[3].status = fmi2Discard

(***************************************************************************)
(* C4: for a status ordinal outside the enumeration the severity mapper    *)
(* returns the label whose text, colour stripped, is exactly "Unknown",    *)
(* different from the six labels of the enumeration.                       *)
(***************************************************************************)
C4_OutOfRangeIsUnknown ==
    \A i \in 1 .. Len(mapped) :
        mapped[i].status \notin fmi2Status =>
            /\ PlainLabel(mapped[i].label) = "Unknown"
            /\ PlainLabel(mapped[i].label) \notin InRangeLabels

(***************************************************************************)
(* C5: allocateMemory(count, elementSize) returns null or a block of       *)
(* exactly count*elementSize bytes, every byte zero; it returns null       *)
(* whenever the product does not fit a size_t; it never crashes and        *)
(* writes nothing to standard output.                                      *)
(***************************************************************************)
C5_AllocateZeroedOrNull ==
    [][call'.fn = "allocateMemory" =>
          /\ ~crashed'
          /\ stdout' = stdout
          /\ \/ call'.ptr = NULL
             \/ /\ call'.ptr \in DOMAIN heap' \ DOMAIN heap
                /\ heap'[call'.ptr].size = call'.nobj * call'.size
                /\ DOMAIN heap'[call'.ptr].bytes = 1 .. (call'.nobj * call'.size)
                /\ \A i \in DOMAIN heap'[call'.ptr].bytes :
                     heap'[call'.ptr].bytes[i] = 0
          /\ (call'.nobj * call'.size > SIZE_MAX => call'.ptr = NULL)]_vars

\* an overflowing request was answered with null while a 4 x 8 block is held
C5_Witness ==
    /\ call.fn = "allocateMemory"
    /\ call.nobj * call.size > SIZE_MAX
    /\ call.ptr = NULL
    /\ \E a \in DOMAIN heap : heap[a].size = 4 * 8 /\ a \in owned

(***************************************************************************)
(* C6: freeMemory of an outstanding block returns normally and hands       *)
(* exactly that block back to the allocator, every other outstanding       *)
(* block untouched; freeMemory(null) returns normally and changes nothing. *)
(***************************************************************************)
C6_FreeReleasesExactlyThatBlock ==
    [][call'.fn = "freeMemory" =>
          /\ ~crashed'
          /\ stdout' = stdout
          /\ IF call'.obj = NULL
             THEN heap' = heap
             ELSE /\ call'.obj \in DOMAIN heap
                  /\ DOMAIN heap' = DOMAIN heap \ {call'.obj}
                  /\ \A a \in DOMAIN heap' : heap'[a] = heap[a]]_vars

\* a block was released while another one stays outstanding
C6_Witness ==
    /\ call.fn = "freeMemory"
    /\ call.obj # NULL
    /\ call.obj \notin DOMAIN heap
    /\ DOMAIN heap # {}

(***************************************************************************)
(* C7: stepFinished returns normally for every handle and status and       *)
(* leaves the output and the allocator as they were.                       *)
(***************************************************************************)
C7_StepFinishedNoEffect ==
    [][call'.fn = "stepFinished" =>
          /\ ~crashed'
          /\ UNCHANGED <<stdout, heap, owned, issued>>]_vars

\* called with no environment and a status outside the enumeration, after
\* output was written and with a block outstanding
C7_Witness ==
    /\ call.fn = "stepFinished"
    /\ call.handle = NULL
    /\ call.status \notin fmi2Status
    /\ stdout # <<>>
    /\ DOMAIN heap # {}

(***************************************************************************)
(* C8: when the allocation of logger's message buffer fails, the call      *)
(* does not crash and returns normally.                                    *)
(***************************************************************************)
C8_AllocFailureSurvived ==
    (call.fn = "logger" /\ call.msgBuffer = NULL) => (~crashed /\ call.returned)

(***************************************************************************)
(* C9: in every logger call the buffer the message is rendered into has    *)
(* room for all that rendering writes, also when the length computation    *)
(* reported failure.                                                       *)
(***************************************************************************)
C9_BufferFits ==
    (call.fn = "logger" /\ call.msgBuffer # NULL) => call.written <= call.capacity

(***************************************************************************)
(* C10: whenever the last call has returned, the outstanding blocks are    *)
(* exactly those allocateMemory returned and freeMemory has not been       *)
(* given: a logger call that returns has released its buffer, also when    *)
(* rendering failed, and has released nothing else.                        *)
(***************************************************************************)
C10_LoggerBufferReleased ==
    ~crashed =>
        /\ DOMAIN heap = owned
        /\ (call.fn = "logger" => call.msgBuffer \notin DOMAIN heap)

\* a logger call whose rendering failed has returned, a caller's block held
C10_Witness ==
    /\ call.fn = "logger"
    /\ call.returned
    /\ call.fail
    /\ call.msgBuffer # NULL
    /\ owned # {}
====
